---- MODULE Spec2Model ----
(***************************************************************************)
(* A model of gpustack/worker/collector.py: WorkerStatusCollector.collect  *)
(* and its helper steps, over the objects the detector, the cluster client *)
(* and the worker manager hand to it.                                      *)
(*                                                                         *)
(* Optional[T] values are modelled as sequences: None is <<>> and a value  *)
(* x is <<x>>.  Python lists are sequences, dicts are functions.           *)
(***************************************************************************)
EXTENDS Integers, Sequences, FiniteSets, TLC

VARIABLES collector, env, sysHeld, gpuHeld, last

vars == <<collector, env, sysHeld, gpuHeld, last>>

(***************************************************************************)
(* Bounds of the model.                                                    *)
(***************************************************************************)
\* GPU indexes are 0 .. MaxGpus-1; a detected device list holds at most MaxGpus devices
MaxGpus == 2
\* a detected filesystem list holds at most MaxMounts mount points
MaxMounts == 2
\* the model-instance query returns at most MaxInstances instances
MaxInstances == 2
\* at most MaxAppends synthesized entries pile up on a filesystem list that is shared across calls
MaxAppends == 2

(***************************************************************************)
(* Optional values.                                                        *)
(***************************************************************************)
None == <<>>
Some(x) == <<x>>
IsNone(o) == Len(o) = 0
Val(o) == o[1]

(***************************************************************************)
(* Strings that are searched are sequences of characters.                  *)
(***************************************************************************)
WindowsStr == <<"W", "i", "n", "d", "o", "w", "s">>
LinuxStr == <<"L", "i", "n", "u", "x">>
WinStr == <<"W", "i", "n">>
LowerWindowsStr == <<"w", "i", "n", "d", "o", "w", "s">>
MSWindowsStr == <<"M", "S", " ">> \o WindowsStr \o <<" ", "1", "1">>

\* Python's  sub in s  on strings
StrContains(sub, s) ==
    \E i \in 0..(Len(s) - Len(sub)) : SubSeq(s, i + 1, i + Len(sub)) = sub


(***************************************************************************)
(* The schemas the collector reads and writes.                             *)
(***************************************************************************)
\* MemoryInfo(): is_unified_memory defaults to False, allocated to None
MemoryInfo(unified) ==
    [total |-> 64, is_unified_memory |-> unified, allocated |-> None]

\* the i-th drive of the host, as the system-info detector reports it
DriveName(i) == CASE i = 1 -> "C:" [] i = 2 -> "D:" [] i = 3 -> "E:" [] OTHER -> "Z:"
Mount(i) ==
    [name |-> DriveName(i), mount_point |-> DriveName(i),
     total |-> 10 * i, used |-> 3 * i + 1, free |-> 7 * i - 1, available |-> 5 * i]

\* what  MountPoint(name="computed", mount_point="/", total=0, used=0, free=0, available=0)  builds
ComputedMountPoint ==
    [name |-> "computed", mount_point |-> "/",
     total |-> 0, used |-> 0, free |-> 0, available |-> 0]

\* WorkerStatus(): every field unset
WorkerStatus ==
    [cpu |-> None, memory |-> None, swap |-> None, filesystem |-> None,
     os |-> None, kernel |-> None, uptime |-> None,
     gpu_devices |-> None, rpc_servers |-> None]

\* Allocated(ram=0, vram={})
Allocated == [ram |-> 0, vram |-> [i \in {} |-> 0]]

\* RPCServer with pid and port taking each other's place
RPCServer_Swapped(pid, port, gpu_index) ==
    [pid |-> port, port |-> pid, gpu_index |-> gpu_index]

RPCServer(pid, port, gpu_index) == [pid |-> pid, port |-> port, gpu_index |-> gpu_index]

NOT_READY == "not_ready"
READY == "ready"

\* Python truthiness of an Optional[str]
TruthyStr(o) == ~IsNone(o) /\ Val(o) # ""
\* Python truthiness of an Optional[int]
TruthyInt(o) == ~IsNone(o) /\ Val(o) # 0
\* Python truthiness of an Optional[list]
TruthyList(o) == ~IsNone(o) /\ Len(Val(o)) # 0

(***************************************************************************)
(* aggregate_computed_resource_claim_allocated                             *)
(***************************************************************************)
\* the (gpu_index, vram) pairs the loop visits:  (claim.vram or {}).items()
ClaimVram(claim) == IF IsNone(claim.vram) THEN [i \in {} |-> 0] ELSE Val(claim.vram)

\* the loop assigning the claim's vram instead of adding it to the running total
FoldVram_Overwrite(acc, cv) ==
    [i \in (DOMAIN acc) \cup (DOMAIN cv) |-> IF i \in DOMAIN cv THEN cv[i] ELSE acc[i]]

\* allocated.vram after the loop over the claim's vram items
FoldVram(acc, cv) ==
    [i \in (DOMAIN acc) \cup (DOMAIN cv) |->
        IF i \in DOMAIN cv
        THEN (IF i \in DOMAIN acc THEN acc[i] ELSE 0) + cv[i]
        ELSE acc[i]]

aggregate_computed_resource_claim_allocated(allocated, computed_resource_claim) ==
    IF IsNone(computed_resource_claim)
    THEN allocated
    ELSE LET claim == Val(computed_resource_claim)
         IN  [ram  |-> IF TruthyInt(claim.ram)
                       THEN allocated.ram + Val(claim.ram)
                       ELSE allocated.ram,
              vram |-> FoldVram(allocated.vram, ClaimVram(claim))]

(***************************************************************************)
(* WorkerStatusCollector._inject_unified_memory                            *)
(* A step returns the status it leaves behind and the exception that       *)
(* escapes it (None when it returns normally).                             *)
(***************************************************************************)
\* the step writing the flag only when there is a device to read it from
inject_unified_memory_Sticky(status) ==
    IF TruthyList(status.gpu_devices) /\ IsNone(Val(status.gpu_devices)[1].memory)
    THEN [status |-> status, exc |-> Some("AttributeError")]
    ELSE [status |->
             IF ~IsNone(status.memory) /\ TruthyList(status.gpu_devices)
             THEN [status EXCEPT !.memory =
                      Some([Val(@) EXCEPT !.is_unified_memory =
                               Val(Val(status.gpu_devices)[1].memory).is_unified_memory])]
             ELSE status,
          exc |-> None]

inject_unified_memory(status) ==
    IF TruthyList(status.gpu_devices) /\ IsNone(Val(status.gpu_devices)[1].memory)
    THEN \* None.is_unified_memory
         [status |-> status, exc |-> Some("AttributeError")]
    ELSE LET is_unified_memory ==
                 IF TruthyList(status.gpu_devices)
                 THEN Val(Val(status.gpu_devices)[1].memory).is_unified_memory
                 ELSE FALSE
         IN  [status |->
                 IF ~IsNone(status.memory)
                 THEN [status EXCEPT !.memory =
                          Some([Val(@) EXCEPT !.is_unified_memory = is_unified_memory])]
                 ELSE status,
              exc |-> None]

(***************************************************************************)
(* WorkerStatusCollector._inject_computed_filesystem_usage                 *)
(***************************************************************************)
\* the loop over status.filesystem, adding each mount point to computed
RECURSIVE SumMountPoints(_, _)
SumMountPoints(computed, filesystem) ==
    IF filesystem = <<>>
    THEN computed
    ELSE LET mountpoint == Head(filesystem)
         IN  SumMountPoints(
                 [computed EXCEPT !.total = @ + mountpoint.total,
                                  !.used = @ + mountpoint.used,
                                  !.free = @ + mountpoint.free,
                                  !.available = @ + mountpoint.available],
                 Tail(filesystem))

\* the guard comparing the name with "Windows" instead of searching it
IsWindows_Exact(name) == name = WindowsStr

\* the guard of the step:  "Windows" not in status.os.name
IsWindows(name) == StrContains(WindowsStr, name)

inject_computed_filesystem_usage(status) ==
    IF IsNone(status.os)
    THEN [status |-> status, exc |-> None]
    ELSE IF IsNone(Val(status.os).name)
    THEN \* "Windows" not in None
         [status |-> status, exc |-> Some("TypeError")]
    ELSE IF ~IsWindows(Val(Val(status.os).name)) \/ IsNone(status.filesystem)
    THEN [status |-> status, exc |-> None]
    ELSE LET computed == SumMountPoints(ComputedMountPoint, Val(status.filesystem))
         IN  [status |-> [status EXCEPT !.filesystem = Some(Append(Val(@), computed))],
              exc |-> None]

(***************************************************************************)
(* WorkerStatusCollector._inject_allocated_resource                        *)
(***************************************************************************)
\* the inner loop over distributed_servers.subordinate_workers
RECURSIVE FoldSubworkers(_, _, _)
FoldSubworkers(allocated, subworkers, worker_name) ==
    IF subworkers = <<>>
    THEN allocated
    ELSE LET subworker == Head(subworkers)
         IN  FoldSubworkers(
                 IF subworker.worker_name # worker_name
                 THEN allocated
                 ELSE aggregate_computed_resource_claim_allocated(
                          allocated, subworker.computed_resource_claim),
                 Tail(subworkers), worker_name)

\* one pass that skips the subordinate entries of an instance this worker owns
FoldInstance_Exclusive(allocated, model_instance, worker_name) ==
    LET ds == model_instance.distributed_servers
    IN  IF model_instance.worker_name = worker_name
        THEN aggregate_computed_resource_claim_allocated(
                 allocated, model_instance.computed_resource_claim)
        ELSE IF ~IsNone(ds) /\ TruthyList(Val(ds).subordinate_workers)
        THEN FoldSubworkers(allocated, Val(Val(ds).subordinate_workers), worker_name)
        ELSE allocated

\* one pass of the loop over model_instances.items
FoldInstance(allocated, model_instance, worker_name) ==
    LET ds == model_instance.distributed_servers
        a1 == IF ~IsNone(ds) /\ TruthyList(Val(ds).subordinate_workers)
              THEN FoldSubworkers(allocated, Val(Val(ds).subordinate_workers), worker_name)
              ELSE allocated
    IN  IF model_instance.worker_name # worker_name
        THEN a1
        ELSE aggregate_computed_resource_claim_allocated(
                 a1, model_instance.computed_resource_claim)

RECURSIVE FoldInstances(_, _, _)
FoldInstances(allocated, items, worker_name) ==
    IF items = <<>>
    THEN allocated
    ELSE FoldInstances(FoldInstance(allocated, Head(items), worker_name),
                       Tail(items), worker_name)

\* the value written to a device:  allocated.vram[index] if index in allocated.vram else 0
DeviceAllocated(allocated, index) ==
    IF index \in DOMAIN allocated.vram THEN allocated.vram[index] ELSE 0

\* the position of the first device whose memory is None (the write to it raises),
\* or Len(devices) + 1 when every device has a memory record
FirstWithoutMemory(devices) ==
    LET bad == {i \in 1..Len(devices) : IsNone(devices[i].memory)}
    IN  IF bad = {} THEN Len(devices) + 1
        ELSE CHOOSE i \in bad : \A j \in bad : i <= j

\* the loop writing to no device at all when the write to one of them raises
WriteDeviceAllocated_Atomic(devices, allocated) ==
    IF FirstWithoutMemory(devices) <= Len(devices)
    THEN devices
    ELSE [i \in 1..Len(devices) |->
             [devices[i] EXCEPT !.memory =
                 Some([Val(@) EXCEPT !.allocated =
                          Some(IF devices[i].index \in DOMAIN allocated.vram
                               THEN allocated.vram[devices[i].index] ELSE 0)])]]

\* the enumerate loop over status.gpu_devices, which stops at the first raise
WriteDeviceAllocated(devices, allocated) ==
    LET stop == FirstWithoutMemory(devices)
    IN  [i \in 1..Len(devices) |->
            IF i < stop
            THEN [devices[i] EXCEPT !.memory =
                     Some([Val(@) EXCEPT !.allocated =
                              Some(DeviceAllocated(allocated, devices[i].index))])]
            ELSE devices[i]]

\* clientset: None when the collector has no cluster client;
\* listing: None when model_instances.list() raises, else the list it returns.
\* Every exception is caught inside the step.
inject_allocated_resource(status, clientset, listing, worker_name) ==
    IF IsNone(clientset) \/ IsNone(listing)
    THEN status
    ELSE LET allocated == FoldInstances(Allocated, Val(listing), worker_name)
             s1 == IF ~IsNone(status.memory)
                   THEN [status EXCEPT !.memory =
                            Some([Val(@) EXCEPT !.allocated = Some(allocated.ram)])]
                   ELSE status
         IN  IF ~IsNone(s1.gpu_devices)
             THEN [s1 EXCEPT !.gpu_devices =
                      Some(WriteDeviceAllocated(Val(@), allocated))]
             ELSE s1

(***************************************************************************)
(* WorkerStatusCollector.collect                                           *)
(*                                                                         *)
(* resp holds what the collaborators answer during the call:               *)
(*   resp.system_info  None when detect_system_info raises, else the       *)
(*                     SystemInfo it returns;                              *)
(*   resp.gpus         [kind, devices, msg]: kind "ok" returns devices,    *)
(*                     "GPUDetectExepction" raises it with message msg,    *)
(*                     "Exception" raises any other exception;             *)
(*   resp.listing      None when model_instances.list() raises, else the   *)
(*                     items it returns;                                   *)
(*   resp.rpc_servers  None when get_rpc_servers raises, else the dict of  *)
(*                     server processes it returns.                        *)
(***************************************************************************)
\* lines 63-75: the system-info step
SystemInfoStep(resp) ==
    IF IsNone(resp.system_info)
    THEN WorkerStatus
    ELSE LET system_info == Val(resp.system_info)
         IN  [WorkerStatus EXCEPT !.cpu = system_info.cpu,
                                  !.memory = system_info.memory,
                                  !.swap = system_info.swap,
                                  !.filesystem = system_info.filesystem,
                                  !.os = system_info.os,
                                  !.kernel = system_info.kernel,
                                  !.uptime = system_info.uptime]

\* the GPU step run on the initial snapshot too
GpuStep_Always(status, initial, resp) ==
    [status |-> IF resp.gpus.kind = "ok"
                THEN [status EXCEPT !.gpu_devices = Some(resp.gpus.devices)]
                ELSE status,
     state_message |-> IF resp.gpus.kind = "GPUDetectExepction"
                       THEN Some(resp.gpus.msg)
                       ELSE None,
     calls |-> <<"detect_system_info", "detect_gpus">>]

\* lines 77-84: the GPU step; calls is the log of collaborator calls so far
GpuStep(status, initial, resp) ==
    IF initial
    THEN [status |-> status, state_message |-> None,
          calls |-> <<"detect_system_info">>]
    ELSE [status |-> IF resp.gpus.kind = "ok"
                     THEN [status EXCEPT !.gpu_devices = Some(resp.gpus.devices)]
                     ELSE status,
          state_message |-> IF resp.gpus.kind = "GPUDetectExepction"
                            THEN Some(resp.gpus.msg)
                            ELSE None,
          calls |-> <<"detect_system_info", "detect_gpus">>]

\* lines 89-96: the sidecar server enumeration
RpcServersStep(status, self, resp) ==
    IF IsNone(self.worker_manager)
    THEN [status |-> status, exc |-> None]
    ELSE IF IsNone(resp.rpc_servers)
    THEN [status |-> status, exc |-> Some("Exception")]
    ELSE LET server_processes == Val(resp.rpc_servers)
         IN  [status |-> [status EXCEPT !.rpc_servers =
                             Some([gpu_index \in DOMAIN server_processes |->
                                      RPCServer(server_processes[gpu_index].process.pid,
                                                server_processes[gpu_index].port,
                                                gpu_index)])],
              exc |-> None]

\* lines 98-102
ReadinessState(initial, state_message) ==
    IF initial \/ TruthyStr(state_message) THEN NOT_READY ELSE READY

\* lines 104-113
MakeWorker(self, state, status, state_message) ==
    [name |-> self.worker_name,
     hostname |-> self.hostname,
     ip |-> self.worker_ip,
     port |-> self.worker_port,
     state |-> state,
     status |-> status,
     state_message |-> state_message,
     worker_uuid |-> IF ~IsNone(self.worker_manager) THEN self.worker_uuid ELSE None]

\* The whole call.  exc is the exception that escapes collect (None when it
\* returns), worker the record it returns, status the WorkerStatus object as the
\* call leaves it, and detected / unified / computed / injected the status after
\* the detection steps and after each of the three inject steps that ran.
collect(self, initial, resp) ==
    LET s1 == SystemInfoStep(resp)
        g  == GpuStep(s1, initial, resp)
        u  == inject_unified_memory(g.status)
        f  == inject_computed_filesystem_usage(u.status)
        a  == inject_allocated_resource(f.status, self.clientset, resp.listing,
                                        self.worker_name)
        r  == RpcServersStep(a, self, resp)
        calls3 == g.calls \o (IF IsNone(self.clientset) THEN <<>>
                              ELSE <<"model_instances.list">>)
        calls4 == calls3 \o (IF IsNone(self.worker_manager) THEN <<>>
                             ELSE <<"get_rpc_servers">>)
    IN  IF ~IsNone(u.exc)
        THEN [exc |-> u.exc, worker |-> None, status |-> u.status, calls |-> g.calls,
              stage |-> "unified", state_message |-> g.state_message,
              detected |-> g.status, unified |-> u.status,
              computed |-> u.status, injected |-> u.status]
        ELSE IF ~IsNone(f.exc)
        THEN [exc |-> f.exc, worker |-> None, status |-> f.status, calls |-> g.calls,
              stage |-> "computed", state_message |-> g.state_message,
              detected |-> g.status, unified |-> u.status,
              computed |-> f.status, injected |-> f.status]
        ELSE IF ~IsNone(r.exc)
        THEN [exc |-> r.exc, worker |-> None, status |-> r.status, calls |-> calls4,
              stage |-> "rpc", state_message |-> g.state_message,
              detected |-> g.status, unified |-> u.status,
              computed |-> f.status, injected |-> a]
        ELSE [exc |-> None,
              worker |-> Some(MakeWorker(self,
                                         ReadinessState(initial, g.state_message),
                                         r.status, g.state_message)),
              status |-> r.status, calls |-> calls4,
              stage |-> "returned", state_message |-> g.state_message,
              detected |-> g.status, unified |-> u.status,
              computed |-> f.status, injected |-> a]

(***************************************************************************)
(* The collaborators' data: what the host, the cluster and the worker      *)
(* manager can report.                                                     *)
(***************************************************************************)
WorkerA == "worker-A"
WorkerB == "worker-B"

Indexes == 0..(MaxGpus - 1)

RECURSIVE SortedSeq(_)
SortedSeq(S) ==
    IF S = {} THEN <<>>
    ELSE LET m == CHOOSE x \in S : \A y \in S : x <= y
         IN  <<m>> \o SortedSeq(S \ {m})

Device(index, memory) == [index |-> index, memory |-> memory]

\* device lists by ascending index, over the given memory records
DeviceListsOver(memories) ==
    UNION { { [k \in 1..Len(SortedSeq(S)) |->
                 Device(SortedSeq(S)[k], m[SortedSeq(S)[k]])] : m \in [S -> memories] }
            : S \in SUBSET Indexes }

DeviceLists == DeviceListsOver({None, Some(MemoryInfo(FALSE)), Some(MemoryInfo(TRUE))})
PlainDeviceLists == DeviceListsOver({None, Some(MemoryInfo(FALSE))})

FilesystemLists ==
    { [k \in 1..Len(SortedSeq(S)) |-> Mount(SortedSeq(S)[k])] : S \in SUBSET (1..MaxMounts) }

OS(name) == Some([name |-> name, version |-> "1"])
OsOptions ==
    {None, OS(None)} \cup
    {OS(Some(n)) : n \in {LinuxStr, WindowsStr, WinStr, LowerWindowsStr, MSWindowsStr}}

SystemInfo(memory, filesystem, os) ==
    [cpu |-> Some("cpu"), memory |-> memory, swap |-> Some("swap"),
     filesystem |-> filesystem, os |-> os, kernel |-> Some("kernel"),
     uptime |-> Some("uptime")]

Claim(ram, vram) == Some([ram |-> ram, vram |-> vram])
ClaimA == Claim(Some(10), Some((0 :> 4)))
ClaimB == Claim(Some(5), Some((0 :> 1) @@ (1 :> 2)))
ClaimEmpty == Claim(None, None)

Subworker(worker_name, claim) ==
    [worker_name |-> worker_name, computed_resource_claim |-> claim]
Distributed(subordinate_workers) == Some([subordinate_workers |-> subordinate_workers])
ModelInstance(worker_name, claim, distributed_servers) ==
    [worker_name |-> worker_name, computed_resource_claim |-> claim,
     distributed_servers |-> distributed_servers]

InstanceUniverse ==
    { ModelInstance(WorkerA, ClaimA, Distributed(Some(<<>>))),
      ModelInstance(WorkerB, ClaimA, Distributed(Some(<<Subworker(WorkerA, ClaimB)>>))),
      ModelInstance(WorkerA, ClaimB,
                    Distributed(Some(<<Subworker(WorkerA, ClaimA),
                                       Subworker(WorkerB, ClaimB)>>))),
      ModelInstance(WorkerA, None, Distributed(None)),
      ModelInstance(WorkerA, ClaimEmpty, Distributed(Some(<<Subworker(WorkerA, None)>>))) }

InstanceLists == UNION { [1..n -> InstanceUniverse] : n \in 0..MaxInstances }

RpcServerMaps ==
    { [i \in S |-> [process |-> [pid |-> 1000 + i], port |-> 50000 + i]]
      : S \in SUBSET Indexes }

NoRpc == [i \in {} |-> 0]

(***************************************************************************)
(* The configurations explored: the constructor's arguments and the data   *)
(* behind the collaborators.  Each family varies one collaborator's data   *)
(* in full and keeps the others small.                                     *)
(***************************************************************************)
Config(sys, gpus, instances, rpc, sysArg, gpuArg, client, manager) ==
    [sys |-> sys, gpus |-> gpus, instances |-> instances, rpc |-> rpc,
     system_info_arg |-> sysArg, gpu_devices_arg |-> gpuArg,
     clientset |-> client, worker_manager |-> manager]

PlainSystems == { SystemInfo(m, None, OS(Some(LinuxStr))) : m \in {None, Some(MemoryInfo(FALSE))} }

FilesystemConfigs ==
    { Config(SystemInfo(Some(MemoryInfo(FALSE)), fs, os), <<>>, <<>>, NoRpc,
             fixed, FALSE, TRUE, FALSE)
      : fs \in {None} \cup {Some(l) : l \in FilesystemLists},
        os \in OsOptions, fixed \in BOOLEAN }

UnifiedConfigs ==
    { Config(sys, gpus, <<>>, NoRpc, sysArg, gpuArg, TRUE, FALSE)
      : sys \in PlainSystems, gpus \in DeviceLists,
        sysArg \in BOOLEAN, gpuArg \in BOOLEAN }

\* every index present, each device with a memory record
FullDeviceList == [k \in 1..MaxGpus |-> Device(k - 1, Some(MemoryInfo(FALSE)))]

\* the two instances of the worked example: primary owner, then subordinate
ExampleInstances ==
    <<ModelInstance(WorkerA, ClaimA, None),
      ModelInstance(WorkerB, ClaimA, Distributed(Some(<<Subworker(WorkerA, ClaimB)>>)))>>

AllocatedConfigs ==
    { Config(sys, FullDeviceList, instances, NoRpc, fixed, fixed, TRUE, FALSE)
      : sys \in PlainSystems, instances \in InstanceLists, fixed \in BOOLEAN }
    \cup
    { Config(sys, gpus, instances, NoRpc, fixed, fixed, TRUE, FALSE)
      : sys \in PlainSystems, gpus \in PlainDeviceLists,
        instances \in {<<>>, ExampleInstances}, fixed \in BOOLEAN }

NoClientConfigs ==
    { Config(sys, gpus, <<>>, NoRpc, fixed, fixed, FALSE, FALSE)
      : sys \in PlainSystems, gpus \in PlainDeviceLists, fixed \in BOOLEAN }

ManagerConfigs ==
    { Config(SystemInfo(Some(MemoryInfo(FALSE)), None, OS(Some(LinuxStr))),
             <<>>, <<>>, rpc, FALSE, FALSE, TRUE, TRUE)
      : rpc \in RpcServerMaps }

Configs ==
    FilesystemConfigs \cup UnifiedConfigs \cup AllocatedConfigs
        \cup NoClientConfigs \cup ManagerConfigs

(***************************************************************************)
(* WorkerStatusCollector.__init__                                          *)
(***************************************************************************)
\* lines 41-57: which detectors the factory is built with.  gpu_devices and
\* system_info are the constructor's arguments (None when not given).
NewDetectorFactory(gpu_devices, system_info) ==
    IF TruthyList(gpu_devices) /\ ~IsNone(system_info)
    THEN [gpu |-> "custom", system_info |-> "custom"]
    ELSE IF TruthyList(gpu_devices)
    THEN [gpu |-> "custom", system_info |-> "auto"]
    ELSE IF ~IsNone(system_info)
    THEN [gpu |-> "auto", system_info |-> "custom"]
    ELSE [gpu |-> "auto", system_info |-> "auto"]

NewCollector(clientset, worker_manager, gpu_devices, system_info) ==
    [worker_name |-> WorkerA,
     hostname |-> "host-a",
     worker_ip |-> "10.0.0.1",
     worker_port |-> 10150,
     clientset |-> clientset,
     worker_manager |-> worker_manager,
     worker_uuid |-> IF ~IsNone(worker_manager) THEN Some("uuid-1") ELSE None,
     detector_factory |-> NewDetectorFactory(gpu_devices, system_info)]

Init ==
    \E c \in Configs :
        LET gpu_devices == IF c.gpu_devices_arg THEN Some(c.gpus) ELSE None
            system_info == IF c.system_info_arg THEN Some(c.sys) ELSE None
            self == NewCollector(IF c.clientset THEN Some("clientset") ELSE None,
                                 IF c.worker_manager THEN Some("worker_manager") ELSE None,
                                 gpu_devices, system_info)
        IN  /\ collector = self
            /\ env = [sys |-> c.sys, gpus |-> c.gpus, instances |-> c.instances,
                      rpc |-> c.rpc]
            /\ sysHeld = IF self.detector_factory.system_info = "custom"
                         THEN system_info ELSE None
            /\ gpuHeld = IF self.detector_factory.gpu = "custom"
                         THEN gpu_devices ELSE None
            /\ last = [called |-> FALSE]

(***************************************************************************)
(* The detector factory's answers.  A custom detector hands back the       *)
(* object it was built with; live detection builds fresh objects.          *)
(***************************************************************************)
DetectSystemInfo == IF ~IsNone(sysHeld) THEN Val(sysHeld) ELSE env.sys
DetectGpus == IF ~IsNone(gpuHeld) THEN Val(gpuHeld) ELSE env.gpus

GpuOutcomes ==
    { [kind |-> "ok", msg |-> ""],
      [kind |-> "Exception", msg |-> "boom"],
      [kind |-> "GPUDetectExepction", msg |-> "no GPU found"],
      [kind |-> "GPUDetectExepction", msg |-> ""] }

\* the number of entries earlier calls appended to the shared filesystem list
Appended ==
    IF IsNone(sysHeld) \/ IsNone(Val(sysHeld).filesystem) THEN 0
    ELSE Len(Val(Val(sysHeld).filesystem)) - Len(Val(env.sys.filesystem))

\* what the collaborators answered during a call, with the answer of a
\* collaborator the call never asked left out
Answers(resp, calls) ==
    LET asked(c) == \E k \in 1..Len(calls) : calls[k] = c
    IN  [system_info |-> resp.system_info,
         gpus |-> IF asked("detect_gpus") THEN Some(resp.gpus) ELSE None,
         listing |-> IF asked("model_instances.list") THEN Some(resp.listing) ELSE None,
         rpc_servers |-> IF asked("get_rpc_servers") THEN Some(resp.rpc_servers) ELSE None]

(***************************************************************************)
(* One call of collect(initial).  sysOk, gpuOut, listOk and rpcOk say how  *)
(* the collaborators would answer during this call.                        *)
(***************************************************************************)
Collect(initial, sysOk, gpuOut, listOk, rpcOk) ==
    /\ Appended < MaxAppends
    \* an absent collaborator has no answer to vary
    /\ IF IsNone(collector.clientset) THEN listOk ELSE TRUE
    /\ IF IsNone(collector.worker_manager) THEN rpcOk ELSE TRUE
    /\ LET resp == [system_info |-> IF sysOk THEN Some(DetectSystemInfo) ELSE None,
                    gpus |-> [kind |-> gpuOut.kind, devices |-> DetectGpus,
                              msg |-> gpuOut.msg],
                    listing |-> IF listOk THEN Some(env.instances) ELSE None,
                    rpc_servers |-> IF rpcOk THEN Some(env.rpc) ELSE None]
           out == collect(collector, initial, resp)
       IN  /\ last' = [called |-> TRUE, initial |-> initial,
                       resp |-> Answers(resp, out.calls), out |-> out]
           \* the objects a custom detector holds are the ones the call wrote to
           /\ sysHeld' = IF ~IsNone(sysHeld) /\ sysOk
                         THEN Some([Val(sysHeld) EXCEPT
                                       !.memory = out.status.memory,
                                       !.filesystem = out.status.filesystem])
                         ELSE sysHeld
           /\ gpuHeld' = IF ~IsNone(gpuHeld) /\ ~initial /\ gpuOut.kind = "ok"
                         THEN out.status.gpu_devices
                         ELSE gpuHeld
    /\ UNCHANGED <<collector, env>>

Next ==
    \E initial \in BOOLEAN, sysOk \in BOOLEAN, gpuOut \in GpuOutcomes,
       listOk \in BOOLEAN, rpcOk \in BOOLEAN :
        Collect(initial, sysOk, gpuOut, listOk, rpcOk)

Spec == Init /\ [][Next]_vars

(***************************************************************************)
(* What the properties below read of the latest call.                      *)
(***************************************************************************)
Called == last.called
Returned == last.called /\ IsNone(last.out.exc)
ReturnedWorker == Val(last.out.worker)
ReturnedStatus == ReturnedWorker.status

\* detect_gpus was invoked during the call and answered with this kind
GpuAnswered(kind) == ~IsNone(last.resp.gpus) /\ Val(last.resp.gpus).kind = kind
\* the model-instance query was made and returned its items
ListingSucceeded == ~IsNone(last.resp.listing) /\ ~IsNone(Val(last.resp.listing))
ListedItems == Val(Val(last.resp.listing))

RECURSIVE SumTo(_, _)
SumTo(f, n) == IF n = 0 THEN 0 ELSE f[n] + SumTo(f, n - 1)
Total(f) == SumTo(f, Len(f))

RamOf(claim) ==
    IF IsNone(claim) THEN 0
    ELSE IF IsNone(Val(claim).ram) THEN 0 ELSE Val(Val(claim).ram)

VramOf(claim, index) ==
    IF IsNone(claim) THEN 0
    ELSE IF IsNone(Val(claim).vram) THEN 0
    ELSE IF index \in DOMAIN Val(Val(claim).vram) THEN Val(Val(claim).vram)[index] ELSE 0

SubordinatesOf(instance) ==
    IF IsNone(instance.distributed_servers) THEN <<>>
    ELSE IF IsNone(Val(instance.distributed_servers).subordinate_workers) THEN <<>>
    ELSE Val(Val(instance.distributed_servers).subordinate_workers)

\* the sum of amount(claim) over the top-level claims of the instances worker owns
\* and over the claims of the subordinate entries that name worker
ClaimedBy(items, worker, amount(_)) ==
    Total([k \in 1..Len(items) |->
             (IF items[k].worker_name = worker
              THEN amount(items[k].computed_resource_claim) ELSE 0)
             + Total([j \in 1..Len(SubordinatesOf(items[k])) |->
                        IF SubordinatesOf(items[k])[j].worker_name = worker
                        THEN amount(SubordinatesOf(items[k])[j].computed_resource_claim)
                        ELSE 0])])

ExpectedRam(items) == ClaimedBy(items, collector.worker_name, RamOf)
ExpectedVram(items, index) ==
    LET amount(claim) == VramOf(claim, index)
    IN  ClaimedBy(items, collector.worker_name, amount)

(***************************************************************************)
(* C1  readiness                                                           *)
(***************************************************************************)
\* C1: the returned Worker is NOT_READY if and only if initial is true or
\* detect_gpus raised GPUDetectExepction, whatever its message (the empty one
\* included); it is READY in every other case.
C1_NotReadyIffInitialOrGpuDetectFailure ==
    Returned =>
        /\ ReturnedWorker.state \in {NOT_READY, READY}
        /\ (ReturnedWorker.state = NOT_READY)
               <=> (last.initial \/ GpuAnswered("GPUDetectExepction"))

(***************************************************************************)
(* C2  collect never raises                                                *)
(***************************************************************************)
\* C2: every call of collect ends by returning a Worker record, whatever the
\* collaborators answer; no exception escapes it.
C2_CollectNeverRaises ==
    Called => (IsNone(last.out.exc) /\ ~IsNone(last.out.worker))

(***************************************************************************)
(* C3  idempotence                                                         *)
(***************************************************************************)
\* how each collaborator answered, apart from the objects it handed back
AnswerKinds(l) ==
    [system_info |-> ~IsNone(l.resp.system_info),
     gpus |-> IF IsNone(l.resp.gpus) THEN <<>>
              ELSE <<Val(l.resp.gpus).kind, Val(l.resp.gpus).msg>>,
     listing |-> IF IsNone(l.resp.listing) THEN <<>>
                 ELSE <<~IsNone(Val(l.resp.listing))>>,
     rpc_servers |-> IF IsNone(l.resp.rpc_servers) THEN <<>>
                     ELSE <<~IsNone(Val(l.resp.rpc_servers))>>]

\* a Worker record without its time-varying field
WithoutUptime(worker) == [worker EXCEPT !.status.uptime = None]

\* C3: two successive calls collect(initial=false) on one collector, answered
\* alike by the collaborators, return records that are equal in every field
\* but uptime.
C3_RepeatedCollectIsIdempotent ==
    [][ ( /\ last.called /\ last'.called
          /\ ~last.initial /\ ~last'.initial
          /\ IsNone(last.out.exc) /\ IsNone(last'.out.exc)
          /\ AnswerKinds(last) = AnswerKinds(last') )
        => WithoutUptime(Val(last.out.worker)) = WithoutUptime(Val(last'.out.worker))
      ]_vars

(***************************************************************************)
(* C4  allocated RAM                                                       *)
(***************************************************************************)
\* C4: when the returned status has a memory record and the model-instance
\* query succeeded, memory.allocated is the sum of the RAM of the top-level
\* claims of the instances this worker owns and of the claims of the
\* subordinate entries naming this worker, each role counted on its own.
C4_AllocatedRamIsSumOfClaims ==
    (Returned /\ ~IsNone(ReturnedStatus.memory) /\ ListingSucceeded)
        => Val(ReturnedStatus.memory).allocated = Some(ExpectedRam(ListedItems))

\* both roles of one instance were counted, next to a second instance
C4_Witness ==
    /\ Returned /\ ~IsNone(ReturnedStatus.memory) /\ ListingSucceeded
    /\ Len(ListedItems) = 2
    /\ ListedItems[1].worker_name = WorkerA
    /\ \E j \in 1..Len(SubordinatesOf(ListedItems[1])) :
           SubordinatesOf(ListedItems[1])[j].worker_name = WorkerA
    /\ ListedItems[2].worker_name = WorkerB
    /\ Val(ReturnedStatus.memory).allocated = Some(20)

(***************************************************************************)
(* C5  allocated VRAM                                                      *)
(***************************************************************************)
\* the position of the first device of the list that has no memory record
FirstMemoryless(devices) ==
    IF \A i \in 1..Len(devices) : ~IsNone(devices[i].memory)
    THEN Len(devices) + 1
    ELSE CHOOSE i \in 1..Len(devices) :
             /\ IsNone(devices[i].memory)
             /\ \A j \in 1..(i - 1) : ~IsNone(devices[j].memory)

\* C5 as stated: after collect(initial=false) in which GPU detection returned a
\* device list, every device of the returned status has memory.allocated set,
\* to the sum of the VRAM claimed for its index (zero when nobody claims it).
C5_EveryDeviceAllocatedSet ==
    (Returned /\ ~last.initial /\ GpuAnswered("ok"))
        => \A i \in 1..Len(Val(ReturnedStatus.gpu_devices)) :
               LET device == Val(ReturnedStatus.gpu_devices)[i]
               IN  /\ ~IsNone(device.memory)
                   /\ ~IsNone(Val(device.memory).allocated)
                   /\ ListingSucceeded =>
                          Val(device.memory).allocated =
                              Some(ExpectedVram(ListedItems, device.index))

\* C5 amended: when, in addition, the model-instance query succeeded, every
\* device that precedes the first device without a memory record (every
\* device, when each has one) has memory.allocated set to the sum of the VRAM
\* claimed for its index, zero when nobody claims it.
C5_DeviceAllocatedIsSumOfClaims ==
    (Returned /\ ~last.initial /\ GpuAnswered("ok") /\ ListingSucceeded)
        => LET devices == Val(ReturnedStatus.gpu_devices)
           IN  \A i \in 1..(FirstMemoryless(devices) - 1) :
                   Val(devices[i].memory).allocated =
                       Some(ExpectedVram(ListedItems, devices[i].index))

\* one device was claimed by two instances, another by nobody
C5_Witness ==
    /\ Returned /\ ~last.initial /\ GpuAnswered("ok") /\ ListingSucceeded
    /\ LET devices == Val(ReturnedStatus.gpu_devices)
       IN  /\ Len(devices) >= 2
           /\ FirstMemoryless(devices) = Len(devices) + 1
           /\ Len(ListedItems) = 2
           /\ \E i, j \in 1..Len(devices) :
                  /\ Val(devices[i].memory).allocated = Some(8)
                  /\ Val(devices[j].memory).allocated = Some(0)

(***************************************************************************)
(* C6  the computed filesystem entry                                       *)
(***************************************************************************)
\* the filesystem step ran: it was entered with the status last.out.unified and
\* left the status last.out.computed
FilesystemStepRan == Called /\ last.out.stage # "unified"

\* the OS names of the model that contain "Windows"
NamesWithWindows == {WindowsStr, MSWindowsStr}

SumOf(entries, field(_)) == Total([k \in 1..Len(entries) |-> field(entries[k])])

ExpectedComputed(entries) ==
    LET total(m) == m.total
        used(m) == m.used
        free(m) == m.free
        available(m) == m.available
    IN  [name |-> "computed", mount_point |-> "/",
         total |-> SumOf(entries, total), used |-> SumOf(entries, used),
         free |-> SumOf(entries, free), available |-> SumOf(entries, available)]

\* C6: when the OS name contains "Windows" and a filesystem list is present,
\* the step appends exactly one entry "computed" at "/" whose four totals are
\* the sums over the entries the list held before the step, the earlier
\* entries staying in place; when the OS descriptor is absent, its name does
\* not contain "Windows" or the list is absent, the list is left as detected.
\* Nothing after the step touches the list.
C6_ComputedEntryAppended ==
    FilesystemStepRan =>
        LET before == last.out.unified
            after == last.out.computed
            windows == /\ ~IsNone(before.os)
                       /\ ~IsNone(Val(before.os).name)
                       /\ Val(Val(before.os).name) \in NamesWithWindows
        IN  /\ (windows /\ ~IsNone(before.filesystem)) =>
                   after.filesystem =
                       Some(Val(before.filesystem)
                                \o <<ExpectedComputed(Val(before.filesystem))>>)
            /\ ~(windows /\ ~IsNone(before.filesystem)) =>
                   after.filesystem = before.filesystem
            /\ before.filesystem = last.out.detected.filesystem
            /\ Returned => ReturnedStatus.filesystem = after.filesystem

\* a Windows host with two drives got its computed entry
C6_Witness ==
    /\ Returned
    /\ ~IsNone(last.out.unified.filesystem)
    /\ Len(Val(last.out.unified.filesystem)) = 2
    /\ ~IsNone(last.out.unified.os)
    /\ Val(last.out.unified.os).name = Some(MSWindowsStr)
    /\ Len(Val(ReturnedStatus.filesystem)) = 3
    /\ Val(ReturnedStatus.filesystem)[3].name = "computed"
    /\ Val(ReturnedStatus.filesystem)[3].total = 30

(***************************************************************************)
(* C7  the unified-memory flag                                             *)
(***************************************************************************)
\* C7: whenever the returned status has a memory record, its is_unified_memory
\* flag is the flag of the first device of the status's GPU device list when
\* that list is non-empty and false when it is empty or absent, so it is
\* false on every initial snapshot and after every failed GPU detection; when
\* there is no memory record the step writes nothing.
C7_UnifiedFlagFollowsFirstDevice ==
    /\ (Returned /\ ~IsNone(ReturnedStatus.memory)) =>
           LET flag == Val(ReturnedStatus.memory).is_unified_memory
               devices == ReturnedStatus.gpu_devices
           IN  /\ (~IsNone(devices) /\ Len(Val(devices)) > 0) =>
                      flag = Val(Val(devices)[1].memory).is_unified_memory
               /\ (IsNone(devices) \/ Val(devices) = <<>>) => flag = FALSE
               /\ (last.initial \/ ~GpuAnswered("ok")) => flag = FALSE
    /\ (Called /\ last.out.stage # "unified" /\ IsNone(last.out.detected.memory)) =>
           last.out.unified = last.out.detected

\* the flag of a unified-memory first device reached the memory record
C7_Witness ==
    /\ Returned /\ ~IsNone(ReturnedStatus.memory)
    /\ ~IsNone(ReturnedStatus.gpu_devices)
    /\ Len(Val(ReturnedStatus.gpu_devices)) = 2
    /\ Val(Val(ReturnedStatus.gpu_devices)[1].memory).is_unified_memory
    /\ Val(ReturnedStatus.memory).is_unified_memory

(***************************************************************************)
(* C8  the initial snapshot                                                *)
(***************************************************************************)
\* C8: a call with initial = true never invokes detect_gpus, leaves the
\* status's GPU device list unset and captures no state message, whatever
\* the detector would have returned or raised.
C8_InitialSkipsGpuDetection ==
    (Called /\ last.initial) =>
        /\ \A k \in 1..Len(last.out.calls) : last.out.calls[k] # "detect_gpus"
        /\ IsNone(last.resp.gpus)
        /\ IsNone(last.out.status.gpu_devices)
        /\ IsNone(last.out.state_message)
        /\ Returned => /\ IsNone(ReturnedStatus.gpu_devices)
                       /\ IsNone(ReturnedWorker.state_message)

\* an initial snapshot of a host whose detector holds a device list
C8_Witness ==
    /\ Returned /\ last.initial
    /\ ~IsNone(gpuHeld) /\ Len(Val(gpuHeld)) = 2
    /\ ~IsNone(ReturnedStatus.memory)

(***************************************************************************)
(* C9  failure of the allocated-resource step                              *)
(***************************************************************************)
\* the step ran: entered with last.out.computed, it left last.out.injected
AllocatedStepRan == Called /\ last.out.stage \in {"rpc", "returned"}

ClientAbsent == IsNone(collector.clientset)
QueryFailed == ~IsNone(last.resp.listing) /\ IsNone(Val(last.resp.listing))
\* the write to some device raised: the status holds a device without memory
WriteFailed ==
    /\ ListingSucceeded
    /\ ~IsNone(last.out.computed.gpu_devices)
    /\ FirstMemoryless(Val(last.out.computed.gpu_devices))
           <= Len(Val(last.out.computed.gpu_devices))

\* the allocated fields of a status: of its memory record and of each device
AllocatedFields(status) ==
    [memory |-> IF IsNone(status.memory) THEN None
                ELSE Some(Val(status.memory).allocated),
     devices |-> IF IsNone(status.gpu_devices) THEN None
                 ELSE Some([i \in 1..Len(Val(status.gpu_devices)) |->
                              IF IsNone(Val(status.gpu_devices)[i].memory) THEN None
                              ELSE Some(Val(Val(status.gpu_devices)[i].memory).allocated)])]

\* readiness is decided by initial and the captured state message alone
ReadinessUnaffected ==
    Returned =>
        ((ReturnedWorker.state = NOT_READY)
             <=> (last.initial \/ (~IsNone(ReturnedWorker.state_message)
                                     /\ Val(ReturnedWorker.state_message) # "")))

\* C9 as stated: if an exception occurs anywhere in the allocated-resource step,
\* it is caught, readiness is unaffected, and the allocated fields of the memory
\* record and of every device are what they were before the step.
C9_FailureLeavesAllocatedUntouched ==
    (AllocatedStepRan /\ (ClientAbsent \/ QueryFailed \/ WriteFailed)) =>
        /\ AllocatedFields(last.out.injected) = AllocatedFields(last.out.computed)
        /\ ReadinessUnaffected

\* C9 amended: the exception is caught and readiness is unaffected.  When the
\* cluster client is absent or the query fails, the status is what it was
\* before the step.  When the write to a device fails (it has no memory
\* record), the memory record's allocated field and those of the devices
\* before that device have been written, and that device and the ones after
\* it are what they were before the step.
C9_FailureLeavesPartialWrites ==
    AllocatedStepRan =>
        LET before == last.out.computed
            after == last.out.injected
        IN  /\ (ClientAbsent \/ QueryFailed) => after = before
            /\ WriteFailed =>
                   LET stop == FirstMemoryless(Val(before.gpu_devices))
                   IN  /\ ~IsNone(before.memory) =>
                              Val(after.memory).allocated = Some(ExpectedRam(ListedItems))
                       /\ \A i \in 1..Len(Val(before.gpu_devices)) :
                              IF i < stop
                              THEN Val(Val(after.gpu_devices)[i].memory).allocated =
                                       Some(ExpectedVram(ListedItems,
                                                         Val(before.gpu_devices)[i].index))
                              ELSE Val(after.gpu_devices)[i] = Val(before.gpu_devices)[i]
            /\ ReadinessUnaffected

\* the write to the second device failed after the first had been written
C9_Witness ==
    /\ Returned /\ WriteFailed
    /\ FirstMemoryless(Val(last.out.computed.gpu_devices)) = 2
    /\ Val(Val(last.out.computed.gpu_devices)[1].memory).allocated = None
    /\ Val(Val(last.out.injected.gpu_devices)[1].memory).allocated = Some(5)
    /\ ~IsNone(last.out.injected.memory)

(***************************************************************************)
(* C10  the sidecar servers                                                *)
(***************************************************************************)
\* C10: with a worker manager, the returned rpc_servers has exactly the keys of
\* the dict get_rpc_servers returned during the call, and the record under a
\* key carries the key as gpu_index with that process's pid and port; without
\* one, rpc_servers and worker_uuid are unset.
C10_RpcServersMirrorManager ==
    Returned =>
        IF ~IsNone(collector.worker_manager)
        THEN LET processes == Val(Val(last.resp.rpc_servers))
                 servers == Val(ReturnedStatus.rpc_servers)
             IN  /\ ~IsNone(ReturnedStatus.rpc_servers)
                 /\ DOMAIN servers = DOMAIN processes
                 /\ \A k \in DOMAIN processes :
                        /\ servers[k].gpu_index = k
                        /\ servers[k].pid = processes[k].process.pid
                        /\ servers[k].port = processes[k].port
        ELSE /\ IsNone(ReturnedStatus.rpc_servers)
             /\ IsNone(ReturnedWorker.worker_uuid)

\* two running servers were recorded
C10_Witness ==
    /\ Returned /\ ~IsNone(collector.worker_manager)
    /\ ~IsNone(ReturnedStatus.rpc_servers)
    /\ Cardinality(DOMAIN Val(ReturnedStatus.rpc_servers)) = 2
    /\ ReturnedWorker.worker_uuid = Some("uuid-1")

====
